---- MODULE Spec2Model ----
(***************************************************************************)
(* READ SPLITER (readspliter.py, v 3.0.0): one run of the script body.     *)
(* The run checks samtools, removes old output files, loads the alignment  *)
(* records into a table, derives the read-name sets mitocondrial,          *)
(* unmapped, placed and mapped, writes each set to its file and prints     *)
(* advisory warnings.                                                      *)
(***************************************************************************)
EXTENDS Naturals, Sequences, FiniteSets

VARIABLES pc, mito, isfile, content, iolog, stdout, err,
          rectable, allreads, mitocondrial, read1, read2,
          unmapped_r1, unmapped_r2, unmapped, unmapped_2, placed, mapped

vars == <<pc, mito, isfile, content, iolog, stdout, err,
          rectable, allreads, mitocondrial, read1, read2,
          unmapped_r1, unmapped_r2, unmapped, unmapped_2, placed, mapped>>

sets == <<mitocondrial, unmapped, placed, mapped>>

(* ------------------------------ bounds --------------------------------- *)
\* Largest number of alignment records in the input container.
MaxRows == 3

(* ------------------------------ inputs --------------------------------- *)
\* Python's None: the reference_name of a record without a contig.
None == "None"

Readnames == {"A", "B"}

Chromosomes == {"chr1", "chrM", None}

\* Values of the -M option: the default contig name, or "" (mito disabled).
mito_contig == "chrM"

Mitos == {mito_contig, ""}

\* The fields recordstable reads from one alignment record.
Records == [query_name : Readnames, is_read1 : BOOLEAN, is_unmapped : BOOLEAN,
            reference_name : Chromosomes, mapq : {0}]

RECURSIVE SubsetsUpTo(_)
SubsetsUpTo(k) ==
    IF k = 0 THEN {{}}
    ELSE LET P == SubsetsUpTo(k - 1)
         IN  P \cup {s \cup {r} : s \in P, r \in Records}

RECURSIVE SetToSeq(_)
SetToSeq(S) ==
    IF S = {} THEN <<>>
    ELSE LET r == CHOOSE x \in S : TRUE
         IN  <<r>> \o SetToSeq(S \ {r})

\* The containers loadbam may return: one to MaxRows distinct records, in a
\* fixed order. Every use of the table is a boolean mask followed by
\* readset, which neither the order of the rows nor a repeated identical
\* row changes.
Containers == {SetToSeq(S) : S \in SubsetsUpTo(MaxRows) \ {{}}}

(* ----------------------------- messages -------------------------------- *)
samtools_err == "ERROR: The detected version of samtools is not greater than or equal to v 1.15.1!"

write_read_err(what) == <<"ERROR: Unable to write %s read names to file!", what>>

read_sort_warn == "WARNING: There was an unknown error in sorting the reads; likely due to non-unique read names."

unmapped_warn == "WARNING: The number of unmapped reads did not match during parsing."

(* ---------------------------- output paths ----------------------------- *)
mapped_name == "mapped.txt"

placed_name == "placed.txt"

mito_name == "mito.txt"

unmapped_name == "unmapped.txt"

\* outnames(inbampath, mito): the four distinct output paths.
outnames == {mapped_name, placed_name, mito_name, unmapped_name}

(* -------------------------- pure functions ----------------------------- *)
\* recordstable(pyobj): one row per record, the five fields unchanged.
recordstable(pyobj) ==
    [i \in DOMAIN pyobj |->
        [Readname   |-> pyobj[i].query_name,
         Isread1    |-> pyobj[i].is_read1,
         Unmapped   |-> pyobj[i].is_unmapped,
         Chromosome |-> pyobj[i].reference_name,
         Mapq       |-> pyobj[i].mapq]]

\* readset(df): the set of Readnames of the rows of df.
readset(df) == {df[i].Readname : i \in DOMAIN df}

\* Variant of AllReads: names taken from the mate-1 rows only.
AllReads_FirstMateOnly(t) ==
    LET First(r) == r.Isread1 IN readset(SelectSeq(t, First))

\* allreads = readset(rectable)
AllReads(t) == readset(t)

\* Variant of MitoReads: an empty argument falls back to the default contig.
MitoReads_DefaultContig(t, m) ==
    LET c == IF m = "" THEN mito_contig ELSE m
        OnMito(r) == r.Chromosome = c
    IN  readset(SelectSeq(t, OnMito))

\* readset(rectable[rectable.Chromosome == mito]) if mito else set()
MitoReads(t, m) ==
    IF m # ""
    THEN LET OnMito(r) == r.Chromosome = m IN readset(SelectSeq(t, OnMito))
    ELSE {}

\* Variant of Read1Rows: the mitochondrial read names are not excluded.
Read1Rows_KeepMito(t, mt) ==
    LET Keep(r) == r.Isread1 IN SelectSeq(t, Keep)

\* rectable[rectable.Isread1 & ~rectable.Readname.isin(mitocondrial)]
Read1Rows(t, mt) ==
    LET Keep(r) == r.Isread1 /\ ~(r.Readname \in mt) IN SelectSeq(t, Keep)

\* rectable[~rectable.Isread1 & ~rectable.Readname.isin(mitocondrial)]
Read2Rows(t, mt) ==
    LET Keep(r) == ~r.Isread1 /\ ~(r.Readname \in mt) IN SelectSeq(t, Keep)

\* Variant of UnmappedOf: the unmapped mask is not applied.
UnmappedOf_NoMask(rd) == readset(rd)

\* readset(read[read.Unmapped])
UnmappedOf(rd) ==
    LET IsUnmapped(r) == r.Unmapped IN readset(SelectSeq(rd, IsUnmapped))

\* unmapped = unmapped_r1 & unmapped_r2
BothUnmapped(u1, u2) == u1 \cap u2

\* Variant of NullContigReads: tests for the empty string instead of null.
NullContigReads_EmptyString(t) ==
    LET IsEmpty(r) == r.Chromosome = "" IN readset(SelectSeq(t, IsEmpty))

\* unmapped_2 = readset(rectable[rectable.Chromosome.isnull()])
NullContigReads(t) ==
    LET IsNull(r) == r.Chromosome = None IN readset(SelectSeq(t, IsNull))

\* Variant of PlacedReads: the unmapped set is not subtracted.
PlacedReads_NoSubtract(u1, u2, un) == u1 \cup u2

\* placed = (unmapped_r1 | unmapped_r2) - unmapped
PlacedReads(u1, u2, un) == (u1 \cup u2) \ un

\* mapped = allreads - (unmapped | placed | mitocondrial)
MappedReads(all, un, pl, mt) == all \ (un \cup pl \cup mt)

\* The condition line 122 hands to ifprint.
CrossCheckArg(un, un2) == Cardinality(un \ un2) = 0

\* The condition line 146 hands to ifprint for the pair s1, s2.
DisjointArg(s1, s2) == Cardinality(s1 \cap s2) # 0

(* ------------------------ external collaborators ----------------------- *)
\* ifprint(message, bool): prints message when bool is true.
ifprint(out, message, b) == IF b THEN Append(out, message) ELSE out

\* writeset(path, set): on success the file at path holds the set; the path
\* is returned either way and the caller tests it with isfile.
writeset(path, s, ok) ==
    /\ isfile' = IF ok THEN [isfile EXCEPT ![path] = TRUE] ELSE isfile
    /\ content' = IF ok THEN [content EXCEPT ![path] = s] ELSE content
    /\ iolog' = Append(iolog, path)

\* assert isfile(path), write_read_err % what
AssertWritten(path, what, next) ==
    IF isfile'[path]
    THEN pc' = next /\ err' = err
    ELSE pc' = "error" /\ err' = write_read_err(what)

(* ------------------------------- state --------------------------------- *)
\* What an output file left by an earlier run holds.
Stale == {"stale"}

Init ==
    /\ pc = "checksam"
    /\ mito \in Mitos
    /\ \E old \in SUBSET outnames :
          /\ isfile = [p \in outnames |-> p \in old]
          /\ content = [p \in outnames |-> IF p \in old THEN Stale ELSE {}]
    /\ iolog = <<>>
    /\ stdout = <<>>
    /\ err = <<>>
    /\ rectable = <<>>
    /\ allreads = {}
    /\ mitocondrial = {}
    /\ read1 = <<>>
    /\ read2 = <<>>
    /\ unmapped_r1 = {}
    /\ unmapped_r2 = {}
    /\ unmapped = {}
    /\ unmapped_2 = {}
    /\ placed = {}
    /\ mapped = {}

tablevars == <<rectable, allreads, read1, read2, unmapped_r1, unmapped_r2, unmapped_2>>

fsvars == <<isfile, content, iolog>>

\* Variant of CheckSam: the old output files are removed before the assert.
CheckSam_AfterCleanup ==
    /\ pc = "checksam"
    /\ isfile' = [p \in outnames |-> FALSE]
    /\ content' = [p \in outnames |-> {}]
    /\ \E ok \in BOOLEAN :
          IF ok THEN pc' = "cleanup" /\ err' = err
                ELSE pc' = "error" /\ err' = <<samtools_err>>
    /\ UNCHANGED <<mito, stdout, iolog, sets>>
    /\ UNCHANGED tablevars

\* line 66: assert checksam(), ...
CheckSam ==
    /\ pc = "checksam"
    /\ \E ok \in BOOLEAN :
          IF ok THEN pc' = "cleanup" /\ err' = err
                ELSE pc' = "error" /\ err' = <<samtools_err>>
    /\ UNCHANGED <<mito, stdout, sets>>
    /\ UNCHANGED tablevars
    /\ UNCHANGED fsvars

\* Variant of RemoveOldRuns: only the mapped file of an old run is removed.
RemoveOldRuns_MappedOnly ==
    /\ pc = "cleanup"
    /\ isfile' = [isfile EXCEPT ![mapped_name] = FALSE]
    /\ content' = [content EXCEPT ![mapped_name] = {}]
    /\ pc' = "load"
    /\ UNCHANGED <<mito, iolog, stdout, err, sets>>
    /\ UNCHANGED tablevars

\* line 94: remove every old output file that exists
RemoveOldRuns ==
    /\ pc = "cleanup"
    /\ isfile' = [p \in outnames |-> FALSE]
    /\ content' = [p \in outnames |-> {}]
    /\ pc' = "load"
    /\ UNCHANGED <<mito, iolog, stdout, err, sets>>
    /\ UNCHANGED tablevars

\* lines 97-100: rectable = recordstable(loadbam(inbampath)); allreads
LoadBam ==
    /\ pc = "load"
    /\ \E pyobj \in Containers :
          /\ rectable' = recordstable(pyobj)
          /\ allreads' = AllReads(rectable')
    /\ iolog' = Append(iolog, "loadbam")
    /\ pc' = "mito"
    /\ UNCHANGED <<mito, isfile, content, stdout, err, sets>>
    /\ UNCHANGED <<read1, read2, unmapped_r1, unmapped_r2, unmapped_2>>

\* lines 103-107: the mitochondrial set, written when mito is set
ParseMito ==
    /\ pc = "mito"
    /\ mitocondrial' = MitoReads(rectable, mito)
    /\ IF mito # ""
       THEN /\ \E ok \in BOOLEAN : writeset(mito_name, mitocondrial', ok)
            /\ AssertWritten(mito_name, mito, "split")
       ELSE /\ pc' = "split"
            /\ UNCHANGED <<err, isfile, content, iolog>>
    /\ UNCHANGED <<mito, stdout, unmapped, placed, mapped>>
    /\ UNCHANGED tablevars

\* lines 110-116: read1, read2, unmapped_r1, unmapped_r2, unmapped
SplitMates ==
    /\ pc = "split"
    /\ read1' = Read1Rows(rectable, mitocondrial)
    /\ read2' = Read2Rows(rectable, mitocondrial)
    /\ unmapped_r1' = UnmappedOf(read1')
    /\ unmapped_r2' = UnmappedOf(read2')
    /\ unmapped' = BothUnmapped(unmapped_r1', unmapped_r2')
    /\ pc' = "crosscheck"
    /\ UNCHANGED <<mito, stdout, err, rectable, allreads, unmapped_2>>
    /\ UNCHANGED <<mitocondrial, placed, mapped>>
    /\ UNCHANGED fsvars

\* Variant of CrossCheck: a mismatch is repaired by keeping only the read
\* names both derivations agree on.
CrossCheck_Repair ==
    /\ pc = "crosscheck"
    /\ unmapped_2' = NullContigReads(rectable)
    /\ stdout' = ifprint(stdout, unmapped_warn, CrossCheckArg(unmapped, unmapped_2'))
    /\ unmapped' = unmapped \cap unmapped_2'
    /\ pc' = "write_unmapped"
    /\ UNCHANGED <<mito, err, mitocondrial, placed, mapped>>
    /\ UNCHANGED <<rectable, allreads, read1, read2, unmapped_r1, unmapped_r2>>
    /\ UNCHANGED fsvars

\* lines 119-122: unmapped_2 and the cross-derivation ifprint
CrossCheck ==
    /\ pc = "crosscheck"
    /\ unmapped_2' = NullContigReads(rectable)
    /\ stdout' = ifprint(stdout, unmapped_warn, CrossCheckArg(unmapped, unmapped_2'))
    /\ pc' = "write_unmapped"
    /\ UNCHANGED <<mito, err, sets>>
    /\ UNCHANGED <<rectable, allreads, read1, read2, unmapped_r1, unmapped_r2>>
    /\ UNCHANGED fsvars

\* line 125: write the unmapped read names
WriteUnmapped ==
    /\ pc = "write_unmapped"
    /\ \E ok \in BOOLEAN : writeset(unmapped_name, unmapped, ok)
    /\ AssertWritten(unmapped_name, "unmapped", "placed")
    /\ UNCHANGED <<mito, stdout, sets>>
    /\ UNCHANGED tablevars

\* lines 128-131: the placed set and its file
WritePlaced ==
    /\ pc = "placed"
    /\ placed' = PlacedReads(unmapped_r1, unmapped_r2, unmapped)
    /\ \E ok \in BOOLEAN : writeset(placed_name, placed', ok)
    /\ AssertWritten(placed_name, "placed", "mapped")
    /\ UNCHANGED <<mito, stdout, mitocondrial, unmapped, mapped>>
    /\ UNCHANGED tablevars

\* lines 134-137: the mapped set and its file
WriteMapped ==
    /\ pc = "mapped"
    /\ mapped' = MappedReads(allreads, unmapped, placed, mitocondrial)
    /\ \E ok \in BOOLEAN : writeset(mapped_name, mapped', ok)
    /\ AssertWritten(mapped_name, "mapped", "disjoint")
    /\ UNCHANGED <<mito, stdout, mitocondrial, unmapped, placed>>
    /\ UNCHANGED tablevars

\* The pairs (i, j), j > i, of all_sets in the order the loops visit them.
all_sets == <<mitocondrial, unmapped, placed, mapped>>

SetPairs == <<<<1, 2>>, <<1, 3>>, <<1, 4>>, <<2, 3>>, <<2, 4>>, <<3, 4>>>>

RECURSIVE DisjointLoop(_, _)
DisjointLoop(out, k) ==
    IF k > Len(SetPairs) THEN out
    ELSE DisjointLoop(
            ifprint(out, read_sort_warn,
                    DisjointArg(all_sets[SetPairs[k][1]], all_sets[SetPairs[k][2]])),
            k + 1)

\* lines 140-146: the pairwise-disjointness warnings
CheckDisjoint ==
    /\ pc = "disjoint"
    /\ stdout' = DisjointLoop(stdout, 1)
    /\ pc' = "done"
    /\ UNCHANGED <<mito, err, sets>>
    /\ UNCHANGED tablevars
    /\ UNCHANGED fsvars

Next ==
    \/ CheckSam
    \/ RemoveOldRuns
    \/ LoadBam
    \/ ParseMito
    \/ SplitMates
    \/ CrossCheck
    \/ WriteUnmapped
    \/ WritePlaced
    \/ WriteMapped
    \/ CheckDisjoint

Spec == Init /\ [][Next]_vars

(* ======================= properties of the run ========================= *)
Rows == {rectable[i] : i \in DOMAIN rectable}

RowNames == {r.Readname : r \in Rows}

\* Read n has a row of mate m (TRUE: mate 1) whose unmapped flag is u.
HasRow(n, m, u) ==
    \E r \in Rows : r.Readname = n /\ r.Isread1 = m /\ r.Unmapped = u

HasMateRow(n, m) == HasRow(n, m, TRUE) \/ HasRow(n, m, FALSE)

OnContig(n, c) == \E r \in Rows : r.Readname = n /\ r.Chromosome = c

Range(f) == {f[i] : i \in DOMAIN f}

WriteFailed == pc = "error" /\ err # <<samtools_err>>

\* The cross-derivation check has run.
CrossChecked ==
    \/ pc \in {"write_unmapped", "placed", "mapped", "disjoint", "done"}
    \/ WriteFailed /\ err # write_read_err(mito)

\* placed has been computed.
PlacedDone ==
    \/ pc \in {"mapped", "disjoint", "done"}
    \/ pc = "error" /\ err \in {write_read_err("placed"), write_read_err("mapped")}

\* All four sets have been computed.
Partitioned ==
    \/ pc \in {"disjoint", "done"}
    \/ pc = "error" /\ err = write_read_err("mapped")

\* C1: once the four sets are computed, their union is the set of all
\* distinct read names of the table, whatever the mito setting.
C1_Complete ==
    Partitioned =>
        mitocondrial \cup unmapped \cup placed \cup mapped = RowNames

\* A mitochondrial read and a read known only by a mate-2 row are both classified.
C1_Witness ==
    /\ pc = "done"
    /\ mitocondrial # {}
    /\ \E n \in RowNames \ mitocondrial : ~HasMateRow(n, TRUE)

\* C2: once the four sets are computed, the six pairwise intersections
\* among mitocondrial, unmapped, placed and mapped are empty.
C2_Disjoint ==
    Partitioned =>
        /\ mitocondrial \cap unmapped = {}
        /\ mitocondrial \cap placed = {}
        /\ mitocondrial \cap mapped = {}
        /\ unmapped \cap placed = {}
        /\ unmapped \cap mapped = {}
        /\ placed \cap mapped = {}

\* A read with a mapped and an unmapped row of the same mate beside an
\* unmapped row of the other mate.
C2_Witness ==
    /\ pc = "done"
    /\ \E n \in unmapped : HasRow(n, TRUE, TRUE) /\ HasRow(n, TRUE, FALSE)

\* C3: with a mito contig supplied, a read name is in mitocondrial exactly
\* when one of its rows has that contig, and then it is in none of unmapped,
\* placed, mapped, whatever its unmapped flags.
C3_MitoFirst ==
    (Partitioned /\ mito # "") =>
        /\ mitocondrial = {n \in RowNames : OnContig(n, mito)}
        /\ \A n \in mitocondrial : n \notin unmapped \cup placed \cup mapped

\* One mate on the mito contig, the other mate unmapped.
C3_Witness ==
    /\ pc = "done"
    /\ mito # ""
    /\ \E n \in mitocondrial, m \in BOOLEAN :
          /\ \E r \in Rows : r.Readname = n /\ r.Isread1 = m /\ r.Chromosome = mito
          /\ HasRow(n, ~m, TRUE)
          /\ ~HasRow(n, m, TRUE)

\* C4 as claimed: every placed read has an unmapped row of one mate and a
\* mapped row of the other mate.
C4_AnchoredByMappedMate ==
    PlacedDone =>
        \A n \in placed :
            \E m \in BOOLEAN : HasRow(n, m, TRUE) /\ HasRow(n, ~m, FALSE)

\* C4 as amended: every placed read has an unmapped row of one mate and no
\* unmapped row of the other mate (which may have no row at all), and none
\* of its rows is on the mito contig.
C4_OneMateUnmapped ==
    PlacedDone =>
        \A n \in placed :
            /\ \E m \in BOOLEAN : HasRow(n, m, TRUE) /\ ~HasRow(n, ~m, TRUE)
            /\ mito # "" => ~OnContig(n, mito)

\* A placed read whose only rows belong to one mate.
C4_Witness ==
    /\ pc = "done"
    /\ \E n \in placed, m \in BOOLEAN : HasRow(n, m, TRUE) /\ ~HasMateRow(n, ~m)

\* C5: with the mito argument empty, mitocondrial is empty, every row is in
\* read1 or read2, and unmapped, placed, mapped are what the mate and
\* unmapped flags of each read's rows give.
C5_MitoDisabled ==
    (Partitioned /\ mito = "") =>
        /\ mitocondrial = {}
        /\ Range(read1) = {r \in Rows : r.Isread1}
        /\ Range(read2) = {r \in Rows : ~r.Isread1}
        /\ unmapped = {n \in RowNames : HasRow(n, TRUE, TRUE) /\ HasRow(n, FALSE, TRUE)}
        /\ placed = {n \in RowNames : HasRow(n, TRUE, TRUE) # HasRow(n, FALSE, TRUE)}
        /\ mapped = {n \in RowNames : ~HasRow(n, TRUE, TRUE) /\ ~HasRow(n, FALSE, TRUE)}

\* Mito disabled while the table has a row on the default mito contig.
C5_Witness ==
    /\ pc = "done"
    /\ mito = ""
    /\ \E n \in RowNames : OnContig(n, mito_contig) /\ n \in placed \cup unmapped

\* C6: after the cross-derivation check the warning has been printed exactly
\* when unmapped - unmapped_2 is non-empty.
C6_WarnIffDiffer ==
    CrossChecked =>
        ((unmapped_warn \in Range(stdout)) <=> (unmapped \ unmapped_2 # {}))

\* Each read name has at most one row per mate.
UniquePerMate ==
    \A r \in Rows, q \in Rows :
        (r.Readname = q.Readname /\ r.Isread1 = q.Isread1) => r = q

\* A row is flagged unmapped exactly when its contig is null.
FlagsAgree == \A r \in Rows : r.Unmapped <=> (r.Chromosome = None)

\* C7 as claimed: when each read name has at most one row per mate, the
\* null-contig read names are exactly the unmapped set.
C7_CrossAgree ==
    (CrossChecked /\ UniquePerMate) => unmapped_2 = unmapped

\* C7 as amended: when each read name has at most one row per mate and a row
\* is flagged unmapped exactly when its contig is null, the null-contig read
\* names that are not mitochondrial are exactly unmapped and placed
\* together, so unmapped is contained in the null-contig set.
C7_CrossContain ==
    (PlacedDone /\ UniquePerMate /\ FlagsAgree) =>
        /\ unmapped_2 \ mitocondrial = unmapped \cup placed
        /\ unmapped \subseteq unmapped_2

\* One read with both mates unmapped and one with a single unmapped mate.
C7_Witness ==
    /\ pc = "done"
    /\ UniquePerMate
    /\ FlagsAgree
    /\ unmapped # {}
    /\ placed # {}

\* The set the run writes to each path.
SetFor(p) ==
    IF p = mito_name THEN mitocondrial
    ELSE IF p = unmapped_name THEN unmapped
    ELSE IF p = placed_name THEN placed
    ELSE mapped

\* The I/O of a complete run, in order.
FullLog ==
    <<"loadbam">> \o (IF mito # "" THEN <<mito_name>> ELSE <<>>)
                  \o <<unmapped_name, placed_name, mapped_name>>

\* C8: the files are written in the order mito (when supplied), unmapped,
\* placed, mapped; when a write leaves no file the run is in error, the
\* files written before it are on disk with their sets, and no later file
\* exists.
C8_WriteFailure ==
    /\ Len(iolog) <= Len(FullLog)
    /\ iolog = SubSeq(FullLog, 1, Len(iolog))
    /\ WriteFailed =>
        /\ ~isfile[iolog[Len(iolog)]]
        /\ \A i \in 2..(Len(iolog) - 1) :
              isfile[iolog[i]] /\ content[iolog[i]] = SetFor(iolog[i])
        /\ \A p \in outnames \ Range(iolog) : ~isfile[p]
    /\ \A i \in 2..Len(iolog) :
          ~isfile[iolog[i]] => (WriteFailed /\ i = Len(iolog))

\* The placed write fails after the mito and unmapped files were written.
C8_Witness ==
    /\ pc = "error"
    /\ err = write_read_err("placed")
    /\ isfile[mito_name]
    /\ isfile[unmapped_name]
    /\ unmapped # {}

\* C9: a failed version check ends the run in error at once: the step
\* changes no file, nothing has been read or written, and no step follows.
C9_PreconditionAbort ==
    /\ [][(pc = "checksam" /\ pc' = "error") =>
            /\ err' = <<samtools_err>>
            /\ UNCHANGED <<isfile, content, iolog, rectable>>
            /\ iolog = <<>>]_vars
    /\ [][pc # "error"]_vars
    /\ [](err = <<samtools_err>> => (pc = "error" /\ iolog = <<>> /\ rectable = <<>>))

\* The version check failed and an old output file is still on disk.
C9_Witness ==
    /\ pc = "error"
    /\ err = <<samtools_err>>
    /\ isfile[mapped_name]
    /\ content[mapped_name] = Stale

\* The statements of the body in program order.
PcOrder ==
    <<"checksam", "cleanup", "load", "mito", "split", "crosscheck",
      "write_unmapped", "placed", "mapped", "disjoint", "done">>

Rank(p) == CHOOSE i \in DOMAIN PcOrder : PcOrder[i] = p

\* C10: the two checks change no set, no file, and never end the run; a run
\* ends in error only on a failed version check or a write that left no
\* file; every step moves to the next statement or to error and a step is
\* possible until the run is done or in error, so every run ends; and a
\* finished run has the files hold exactly the computed sets.
C10_Advisory ==
    /\ [][(pc \in {"crosscheck", "disjoint"}) =>
            /\ UNCHANGED <<mitocondrial, unmapped, placed, mapped>>
            /\ UNCHANGED <<isfile, content>>
            /\ pc' # "error"]_vars
    /\ [][pc' = "error" \/ Rank(pc') = Rank(pc) + 1]_vars
    /\ [](pc \in {"done", "error"} \/ ENABLED Next)
    /\ [](pc = "error" =>
            \/ err = <<samtools_err>>
            \/ ~isfile[iolog[Len(iolog)]])
    /\ [](pc = "done" =>
            /\ \A p \in {unmapped_name, placed_name, mapped_name} :
                  isfile[p] /\ content[p] = SetFor(p)
            /\ isfile[mito_name] <=> (mito # "")
            /\ mito # "" => content[mito_name] = mitocondrial
            /\ unmapped = {n \in RowNames \ mitocondrial :
                              HasRow(n, TRUE, TRUE) /\ HasRow(n, FALSE, TRUE)})

\* A run that printed the cross-derivation warning and finished.
C10_Witness ==
    /\ pc = "done"
    /\ unmapped_warn \in Range(stdout)
    /\ mito # ""
    /\ placed # {}
====
